---------------------------- MODULE Spec2Model ----------------------------
(***************************************************************************)
(* Model of serverAgent.py: a local HTTP server that preloads one HTML     *)
(* document and the images it references, then serves them from memory    *)
(* and hands every other request to the static file handler.              *)
(*                                                                         *)
(* Strings (paths, request targets, the document's bytes) are sequences    *)
(* of one-character strings, so that split, lstrip, splitext, normpath,    *)
(* unquote and the regular-expression scan are computed as the code        *)
(* computes them.  The contents of image files are opaque tokens.          *)
(***************************************************************************)
EXTENDS Integers, Sequences, FiniteSets, TLC

(***************************************************************************)
(* String helpers: the Python str / os.path / urllib operations the code   *)
(* calls.                                                                  *)
(***************************************************************************)

\* s.startswith(pre)
StartsWith(s, pre) ==
    /\ Len(pre) <= Len(s)
    /\ SubSeq(s, 1, Len(pre)) = pre

\* s[i:] for a 1-based index i
From(s, i) == SubSeq(s, i, Len(s))

\* s.find(c) for a single character c, 1-based; 0 when c does not occur
Find(s, c) ==
    IF \E i \in 1..Len(s) : s[i] = c
    THEN CHOOSE i \in 1..Len(s) : s[i] = c /\ \A j \in 1..(i - 1) : s[j] # c
    ELSE 0

\* s.rfind(c), 1-based; 0 when c does not occur
RFind(s, c) ==
    IF \E i \in 1..Len(s) : s[i] = c
    THEN CHOOSE i \in 1..Len(s) : s[i] = c /\ \A j \in (i + 1)..Len(s) : s[j] # c
    ELSE 0

\* s.split(c)[0]
SplitFirst(s, c) == IF Find(s, c) = 0 THEN s ELSE SubSeq(s, 1, Find(s, c) - 1)

\* s.lstrip(c)
RECURSIVE LStrip(_, _)
LStrip(s, c) == IF s # <<>> /\ s[1] = c THEN LStrip(Tail(s), c) ELSE s

\* s.split(c): the sequence of the pieces between occurrences of c
RECURSIVE Split(_, _)
Split(s, c) ==
    IF Find(s, c) = 0 THEN <<s>>
    ELSE <<SubSeq(s, 1, Find(s, c) - 1)>> \o Split(From(s, Find(s, c) + 1), c)

\* sep.join(comps)
RECURSIVE Join(_, _)
Join(comps, sep) ==
    IF comps = <<>> THEN <<>>
    ELSE IF Len(comps) = 1 THEN comps[1]
    ELSE comps[1] \o sep \o Join(Tail(comps), sep)

UpperCase == {"A", "B", "C", "D", "E", "F", "G", "H", "I", "J", "K", "L", "M",
              "N", "O", "P", "Q", "R", "S", "T", "U", "V", "W", "X", "Y", "Z"}

LowerOf == [c \in UpperCase |->
    CASE c = "A" -> "a" [] c = "B" -> "b" [] c = "C" -> "c" [] c = "D" -> "d"
      [] c = "E" -> "e" [] c = "F" -> "f" [] c = "G" -> "g" [] c = "H" -> "h"
      [] c = "I" -> "i" [] c = "J" -> "j" [] c = "K" -> "k" [] c = "L" -> "l"
      [] c = "M" -> "m" [] c = "N" -> "n" [] c = "O" -> "o" [] c = "P" -> "p"
      [] c = "Q" -> "q" [] c = "R" -> "r" [] c = "S" -> "s" [] c = "T" -> "t"
      [] c = "U" -> "u" [] c = "V" -> "v" [] c = "W" -> "w" [] c = "X" -> "x"
      [] c = "Y" -> "y" [] c = "Z" -> "z"]

\* s.lower()
Lower(s) == [i \in 1..Len(s) |-> IF s[i] \in UpperCase THEN LowerOf[s[i]] ELSE s[i]]

\* os.path.splitext(p)[1]: the extension starts at the last dot of the last
\* component, unless that component has only dots before it.
SplitExt(p) ==
    LET sepIndex == RFind(p, "/")
        dotIndex == RFind(p, ".")
    IN  IF dotIndex > sepIndex
           /\ \E k \in (sepIndex + 1)..(dotIndex - 1) : p[k] # "."
        THEN From(p, dotIndex)
        ELSE <<>>

\* os.path.join(a, b) on POSIX
PathJoin(a, b) ==
    IF StartsWith(b, <<"/">>) THEN b
    ELSE IF a = <<>> \/ a[Len(a)] = "/" THEN a \o b
    ELSE a \o <<"/">> \o b

\* the component stack of os.path.normpath
RECURSIVE NormComps(_, _, _)
NormComps(comps, acc, rooted) ==
    IF comps = <<>> THEN acc
    ELSE LET comp == comps[1]
             rest == Tail(comps)
         IN  IF comp = <<>> \/ comp = <<".">> THEN NormComps(rest, acc, rooted)
             ELSE IF \/ comp # <<".", ".">>
                     \/ (~rooted /\ acc = <<>>)
                     \/ (acc # <<>> /\ acc[Len(acc)] = <<".", ".">>)
                  THEN NormComps(rest, Append(acc, comp), rooted)
             ELSE IF acc # <<>>
                  THEN NormComps(rest, SubSeq(acc, 1, Len(acc) - 1), rooted)
             ELSE NormComps(rest, acc, rooted)

\* os.path.normpath(path) on POSIX
NormPath(path) ==
    IF path = <<>> THEN <<".">>
    ELSE LET rooted == StartsWith(path, <<"/">>)
             slashes == IF ~rooted THEN <<>>
                        ELSE IF StartsWith(path, <<"/", "/">>)
                                /\ ~StartsWith(path, <<"/", "/", "/">>)
                             THEN <<"/", "/">>
                        ELSE <<"/">>
             joined == slashes \o Join(NormComps(Split(path, "/"), <<>>, rooted), <<"/">>)
         IN  IF joined = <<>> THEN <<".">> ELSE joined


HexDigits == {"0", "1", "2", "3", "4", "5", "6", "7", "8", "9",
              "a", "b", "c", "d", "e", "f", "A", "B", "C", "D", "E", "F"}

HexVal(h) ==
    CASE h = "0" -> 0 [] h = "1" -> 1 [] h = "2" -> 2 [] h = "3" -> 3
      [] h = "4" -> 4 [] h = "5" -> 5 [] h = "6" -> 6 [] h = "7" -> 7
      [] h = "8" -> 8 [] h = "9" -> 9
      [] h \in {"a", "A"} -> 10 [] h \in {"b", "B"} -> 11
      [] h \in {"c", "C"} -> 12 [] h \in {"d", "D"} -> 13
      [] h \in {"e", "E"} -> 14 [] h \in {"f", "F"} -> 15

\* The character of a byte value: the ASCII codes that the request targets of
\* this model escape; a lone byte above 0x7F decodes to U+FFFD.
CharOf(code) ==
    CASE code = 32 -> " " [] code = 35 -> "#" [] code = 37 -> "%"
      [] code = 46 -> "." [] code = 47 -> "/" [] code = 63 -> "?"
      [] code = 80 -> "P" [] code = 97 -> "a"
      [] code >= 128 -> "U+FFFD"

\* urllib.parse.unquote(s): every %XX with two hex digits becomes its character,
\* any other % is kept.
RECURSIVE Unquote(_)
Unquote(s) ==
    IF s = <<>> THEN <<>>
    ELSE IF s[1] = "%" /\ Len(s) >= 3 /\ s[2] \in HexDigits /\ s[3] \in HexDigits
         THEN <<CharOf(16 * HexVal(s[2]) + HexVal(s[3]))>> \o Unquote(From(s, 4))
    ELSE <<s[1]>> \o Unquote(Tail(s))

\* bytes.decode('utf-8', errors='ignore'): ASCII bytes are themselves, the
\* byte 0xFF (never valid in UTF-8) is dropped.
Utf8DecodeIgnore(bytes) == SelectSeq(bytes, LAMBDA b : b # "xFF")

Quotes == {"\"", "'"}

\* the number of leading characters of s that are not quotes
RECURSIVE QuoteFree(_)
QuoteFree(s) == IF s = <<>> \/ s[1] \in Quotes THEN 0 ELSE 1 + QuoteFree(Tail(s))

\* The match of  attr=["\']([^"\']+)["\']  at the start of s:
\* <<length of the match, group 1>>, or <<0, <<>> >> when it does not match there.
MatchAt(s, attr) ==
    LET open == Len(attr) + 2
        rest == From(s, open + 1)
        n    == QuoteFree(rest)
    IN  IF /\ StartsWith(s, attr \o <<"=">>)
           /\ Len(s) >= open
           /\ s[open] \in Quotes
           /\ n >= 1
           /\ Len(rest) > n
        THEN <<open + n + 1, SubSeq(rest, 1, n)>>
        ELSE <<0, <<>> >>

\* set(re.findall(r'attr=["\']([^"\']+)["\']', s)): leftmost, non-overlapping
RECURSIVE FindAll(_, _)
FindAll(s, attr) ==
    IF s = <<>> THEN {}
    ELSE IF MatchAt(s, attr)[1] > 0
         THEN {MatchAt(s, attr)[2]} \cup FindAll(From(s, MatchAt(s, attr)[1] + 1), attr)
    ELSE FindAll(Tail(s), attr)

(***************************************************************************)
(* Configuration                                                           *)
(***************************************************************************)

PORT == 8000

\* "PROJECT_APEX_V2.html"
FILE_NAME == <<"P", "R", "O", "J", "E", "C", "T", "_", "A", "P", "E", "X", "_", "V", "2", ".", "h", "t", "m", "l">>

\* the directory of the script, here /srv
SCRIPT_DIR == <<"/", "s", "r", "v">>

FILE_PATH == PathJoin(SCRIPT_DIR, FILE_NAME)

\* b"<h1>File Not Loaded</h1>"
PLACEHOLDER == <<"<", "h", "1", ">", "F", "i", "l", "e", " ", "N", "o", "t", " ", "L", "o", "a", "d", "e", "d", "<", "/", "h", "1", ">">>

\* ('.png', '.jpg', '.jpeg', '.gif', '.svg', '.webp', '.ico')
ImageExts == { <<".", "p", "n", "g">>, <<".", "j", "p", "g">>, <<".", "j", "p", "e", "g">>,
               <<".", "g", "i", "f">>, <<".", "s", "v", "g">>, <<".", "w", "e", "b", "p">>,
               <<".", "i", "c", "o">> }

(***************************************************************************)
(* The filesystem: a function from absolute normalised paths to entries.   *)
(* A path outside the domain does not exist.                               *)
(***************************************************************************)

\* data is a byte sequence: the characters of a text file, or one opaque
\* token standing for the whole content of a binary file
File(data, readable) == [kind |-> "file", readable |-> readable, data |-> data]

Directory == [kind |-> "dir", readable |-> TRUE, data |-> <<>>]

\* os.path.exists(p) and os.path.isfile(p)
IsFile(disk, p) == p \in DOMAIN disk /\ disk[p].kind = "file"

IsDir(disk, p) == p \in DOMAIN disk /\ disk[p].kind = "dir"

\* open(p, 'rb') succeeds
CanOpen(disk, p) == IsFile(disk, p) /\ disk[p].readable

(***************************************************************************)
(* Preload of the document                                                 *)
(***************************************************************************)

\* variant: a failed read leaves the document empty
LoadDocument_empty(disk) == IF CanOpen(disk, FILE_PATH) THEN disk[FILE_PATH].data ELSE <<>>

\* FILE_CONTENT: the bytes of the document, or the placeholder when open/read raises
LoadDocument(disk) == IF CanOpen(disk, FILE_PATH) THEN disk[FILE_PATH].data ELSE PLACEHOLDER

(***************************************************************************)
(* preload_images_from_html                                                *)
(***************************************************************************)

\* the candidate set: src= and href= attribute values of the decoded document
Candidates(html_bytes) ==
    LET html == Utf8DecodeIgnore(html_bytes)
    IN  FindAll(html, <<"s", "r", "c">>) \cup FindAll(html, <<"h", "r", "e", "f">>)

\* lp = p.split('?')[0].split('#')[0]
LocalPath(p) == SplitFirst(SplitFirst(p, "?"), "#")

\* ext = os.path.splitext(lp)[1].lower(); ext in (...)
IsImagePath(lp) == lp # <<>> /\ Lower(SplitExt(lp)) \in ImageExts

\* request_path = lp if lp.startswith('/') else '/' + lp
RequestPath(lp) == IF StartsWith(lp, <<"/">>) THEN lp ELSE <<"/">> \o lp

\* variant: the leading slashes are not stripped before the join
FsPath_nolstrip(lp) == NormPath(PathJoin(SCRIPT_DIR, lp))

\* fs_path = os.path.normpath(os.path.join(SCRIPT_DIR, lp.lstrip('/')))
FsPath(lp) == NormPath(PathJoin(SCRIPT_DIR, LStrip(lp, "/")))

\* mimetypes.guess_type(path)[0], with 'application/octet-stream' when it is None
GuessType(path) ==
    LET ext == Lower(SplitExt(path))
    IN  CASE ext = <<".", "p", "n", "g">> -> "image/png"
          [] ext \in { <<".", "j", "p", "g">>, <<".", "j", "p", "e", "g">> } -> "image/jpeg"
          [] ext = <<".", "g", "i", "f">> -> "image/gif"
          [] ext = <<".", "s", "v", "g">> -> "image/svg+xml"
          [] ext = <<".", "w", "e", "b", "p">> -> "image/webp"
          [] ext = <<".", "i", "c", "o">> -> "image/vnd.microsoft.icon"
          [] ext = <<".", "h", "t", "m", "l">> -> "text/html"
          [] ext = <<".", "j", "s">> -> "text/javascript"
          [] ext = <<".", "t", "x", "t">> -> "text/plain"
          [] OTHER -> "application/octet-stream"

\* whether the loop body stores an entry for candidate p
Cacheable(p, disk) ==
    /\ IsImagePath(LocalPath(p))
    /\ IsFile(disk, FsPath(LocalPath(p)))
    /\ CanOpen(disk, FsPath(LocalPath(p)))

\* f @@ (k :> v) with v replacing an older value of k: IMAGE_CACHE[k] = v
Store(cache, k, v) == [x \in DOMAIN cache \cup {k} |-> IF x = k THEN v ELSE cache[x]]

\* variant: a candidate that cannot be cached discards what was cached so far
PreloadOne_abort(p, cache, disk) ==
    IF Cacheable(p, disk)
    THEN Store(cache, RequestPath(LocalPath(p)),
               <<disk[FsPath(LocalPath(p))].data, GuessType(FsPath(LocalPath(p)))>>)
    ELSE [k \in {} |-> <<>>]

\* one iteration of  for p in paths:  the image cache after candidate p
PreloadOne(p, cache, disk) ==
    IF Cacheable(p, disk)
    THEN Store(cache, RequestPath(LocalPath(p)),
               <<disk[FsPath(LocalPath(p))].data, GuessType(FsPath(LocalPath(p)))>>)
    ELSE cache

(***************************************************************************)
(* get_local_ip                                                            *)
(***************************************************************************)

\* the local address of the UDP socket, and the address the host name resolves to
SOCK_IP == "192.168.1.5"

HOST_IP == "127.0.1.1"

LOOPBACK == "127.0.0.1"

\* the call of strategy 1 that raises ("ok": none does)
SockOutcomes == {"ok", "socket", "connect", "getsockname", "close"}

\* whether socket.gethostbyname(socket.gethostname()) raises
HostOutcomes == {"ok", "fail"}

\* variant: s.close() stands outside the try block
get_local_ip_close(sock, host) ==
    IF sock = "ok" THEN [kind |-> "return", value |-> SOCK_IP]
    ELSE IF sock = "close" THEN [kind |-> "raise", value |-> "OSError"]
    ELSE IF host = "ok" THEN [kind |-> "return", value |-> HOST_IP]
    ELSE [kind |-> "return", value |-> LOOPBACK]

\* get_local_ip(), given which call raises
get_local_ip(sock, host) ==
    IF sock = "ok" THEN [kind |-> "return", value |-> SOCK_IP]
    ELSE IF host = "ok" THEN [kind |-> "return", value |-> HOST_IP]
    ELSE [kind |-> "return", value |-> LOOPBACK]

(***************************************************************************)
(* FastRequestHandler.do_GET                                               *)
(***************************************************************************)

\* os.path.basename(p)
Basename(p) == From(p, RFind(p, "/") + 1)

\* path in ('/', f'/{FILE_NAME}', f'/{os.path.basename(FILE_NAME)}')
IsDocumentPath(path) ==
    path \in {<<"/">>, <<"/">> \o FILE_NAME, <<"/">> \o Basename(FILE_NAME)}

\* the branch do_GET takes for the decoded path
Branch(path, cache) ==
    IF IsDocumentPath(path) THEN "document"
    ELSE IF path \in DOMAIN cache THEN "image"
    ELSE "fallback"

Response(status, ctype, cc, body, source) ==
    [status |-> status, ctype |-> ctype, cache_control |-> cc, body |-> body,
     source |-> source]

\* the first branch: the preloaded document
DocumentResponse(content) ==
    Response(200, "text/html; charset=utf-8", "no-cache", content, "document")

\* the second branch: data, mime = IMAGE_CACHE[path]
ImageResponse(entry) ==
    Response(200, entry[2], "public, max-age=86400", entry[1], "image_cache")

(***************************************************************************)
(* The static handler do_GET falls back to (SimpleHTTPRequestHandler),     *)
(* rooted at the working directory.                                        *)
(***************************************************************************)

NotFound == Response(404, "text/html;charset=utf-8", "none", <<"File not found">>, "fallback")

\* the target without its query string and fragment
TargetPath(raw) == SplitFirst(SplitFirst(raw, "?"), "#")

\* translate_path: unquote, normalise, drop '.' and '..' words, join to cwd
TranslatePath(raw, cwd) ==
    LET words == SelectSeq(Split(NormPath(Unquote(TargetPath(raw))), "/"),
                           LAMBDA w : w # <<>> /\ w # <<".">> /\ w # <<".", ".">>)
    IN  IF words = <<>> THEN cwd ELSE PathJoin(cwd, Join(words, <<"/">>))

EndsWithSlash(s) == s # <<>> /\ s[Len(s)] = "/"

\* send_head and the copy of the file: the response of the static handler
StaticHandler(raw, cwd, disk) ==
    LET path  == TranslatePath(raw, cwd)
        index == PathJoin(path, <<"i", "n", "d", "e", "x", ".", "h", "t", "m", "l">>)
    IN  IF IsDir(disk, path)
        THEN IF ~EndsWithSlash(TargetPath(raw))
             THEN Response(301, "none", "none", <<>>, "fallback")
             ELSE IF CanOpen(disk, index)
                  THEN Response(200, GuessType(index), "none", disk[index].data, "fallback")
             ELSE Response(200, "text/html; charset=utf-8", "none",
                           <<"directory listing">>, "fallback")
        ELSE IF EndsWithSlash(TargetPath(raw)) \/ ~CanOpen(disk, path)
             THEN NotFound
        ELSE Response(200, GuessType(path), "none", disk[path].data, "fallback")

(***************************************************************************)
(* The environment: documents, files and requests                          *)
(***************************************************************************)

\* the largest number of asset references in a document
MaxRefs == 2

\* the number of connections, each served by its own thread
NumThreads == 2

\* the largest number of changes to the files while the server runs
MaxDiskChanges == 1

Images == <<"I", "m", "a", "g", "e", "s", "/">>

a_png == <<"a", ".", "p", "n", "g">>

b_svg == <<"b", ".", "s", "v", "g">>

A_PNG == <<"A", ".", "P", "N", "G">>

x_png == <<"x", ".", "p", "n", "g">>

dir_png == <<"d", "i", "r", ".", "p", "n", "g">>

locked_jpg == <<"l", "o", "c", "k", "e", "d", ".", "j", "p", "g">>

missing_gif == <<"m", "i", "s", "s", "i", "n", "g", ".", "g", "i", "f">>

script_js == <<"s", "c", "r", "i", "p", "t", ".", "j", "s">>

other_txt == <<"o", "t", "h", "e", "r", ".", "t", "x", "t">>

src == <<"s", "r", "c">>

href == <<"h", "r", "e", "f">>

\* <name attr=qvalueq>
Tag(name, attr, q, value) ==
    <<"<">> \o name \o <<" ">> \o attr \o <<"=", q>> \o value \o <<q, ">">>

img == <<"i", "m", "g">>

\* the references a document is made of
RefPool == <<
    Tag(img, src, "\"", Images \o a_png),
    Tag(<<"l", "i", "n", "k">>, href, "\"", Images \o b_svg),
    Tag(img, src, "'", <<"/">> \o Images \o a_png),
    Tag(img, src, "\"", Images \o a_png \o <<"?", "v", "=", "1">>),
    Tag(img, src, "\"", Images \o missing_gif),
    Tag(<<"s", "c", "r", "i", "p", "t">>, src, "\"", script_js),
    Tag(img, src, "\"", <<".", ".", "/">> \o x_png),
    Tag(<<"a">>, href, "\"", FILE_NAME),
    Tag(img, src, "\"", Images \o locked_jpg),
    Tag(img, src, "\"", Images \o dir_png),
    Tag(<<"a">>, href, "\"", <<"#", "t", "o", "p">>),
    Tag(img, src, "\"", Images \o <<"xFF">> \o b_svg \o <<"#", "x">>),
    Tag(img, src, "\"", Images \o A_PNG) >>

\* the references with the given indices, concatenated in pool order
RECURSIVE Concat(_, _)
Concat(S, i) ==
    IF i > Len(RefPool) THEN <<>>
    ELSE (IF i \in S THEN RefPool[i] ELSE <<>>) \o Concat(S, i + 1)

Documents == {Concat(S, 1) : S \in {T \in SUBSET (1..Len(RefPool)) : Cardinality(T) <= MaxRefs}}

\* the files besides the document: images under the root (one unreadable, one
\* name taken by a directory), other files under the root, files outside it
BaseDisk ==
    LET files == {
            <<SCRIPT_DIR \o <<"/">> \o Images \o a_png, File(<<"png_a">>, TRUE)>>,
            <<SCRIPT_DIR \o <<"/">> \o Images \o b_svg, File(<<"svg_b">>, TRUE)>>,
            <<SCRIPT_DIR \o <<"/">> \o Images \o A_PNG, File(<<"png_upper">>, TRUE)>>,
            <<SCRIPT_DIR \o <<"/">> \o Images \o locked_jpg, File(<<"jpg_locked">>, FALSE)>>,
            <<SCRIPT_DIR \o <<"/">> \o Images \o dir_png, Directory>>,
            <<SCRIPT_DIR \o <<"/">> \o script_js, File(<<"js">>, TRUE)>>,
            <<SCRIPT_DIR \o <<"/">> \o other_txt, File(<<"txt">>, TRUE)>>,
            <<SCRIPT_DIR \o <<"/", "I", "m", "a", "g", "e", "s">>, Directory>>,
            <<SCRIPT_DIR, Directory>>,
            <<<<"/">> \o x_png, File(<<"png_outside_x">>, TRUE)>>,
            <<<<"/">> \o Images \o a_png, File(<<"png_outside_a">>, TRUE)>> }
    IN  [p \in {f[1] : f \in files} |-> (CHOOSE f \in files : f[1] = p)[2]]

\* the disk with the entry of path p set to e
WithFile(disk, p, e) == [x \in DOMAIN disk \cup {p} |-> IF x = p THEN e ELSE disk[x]]

\* the disk without path p
Without(disk, p) == [x \in DOMAIN disk \ {p} |-> disk[x]]

\* the document the serving runs start from: the two images of the root, an
\* image above the root and a link to the document itself
ServedDocuments == {Concat({1, 2, 7, 8}, 1)}

\* the disks the process may start on: the document absent, unreadable, or
\* any of docs
InitialDisks(docs) ==
    {BaseDisk, WithFile(BaseDisk, FILE_PATH, File(<<"<", "p", ">">>, FALSE))}
        \cup {WithFile(BaseDisk, FILE_PATH, File(d, TRUE)) : d \in docs}

\* the request targets clients send
Requests == {
    <<"/">>,
    <<"/">> \o FILE_NAME,
    <<"/", "%", "5", "0">> \o Tail(FILE_NAME),
    <<"/">> \o Images \o <<"%", "6", "1", ".", "p", "n", "g">>,
    <<"/">> \o Images \o a_png \o <<"?", "v", "=", "1">>,
    <<"/", ".", ".", "/">> \o x_png }

\* the files that are rewritten while the server runs, and their new contents
Changes == {
    <<SCRIPT_DIR \o <<"/">> \o Images \o a_png, <<"png_a2">>>>,
    <<FILE_PATH, <<"<", "p", ">", "v", "2", "<", "/", "p", ">">>>> }

\* the files that are deleted while the server runs
Removable == {SCRIPT_DIR \o <<"/">> \o Images \o a_png}

(***************************************************************************)
(* State                                                                   *)
(***************************************************************************)

VARIABLES
    pc,            \* position of the main thread
    disk,          \* the filesystem
    cwd,           \* the working directory of the process
    FILE_CONTENT,  \* the preloaded document bytes
    IMAGE_CACHE,   \* request path -> <<bytes, mime>>
    paths,         \* the candidate set of preload_images_from_html
    todo,          \* the candidates the loop has not visited yet
    cached,        \* the counter of preload_images_from_html
    listener,      \* "none", "bound", "serving", "stopped"
    local_ip,      \* the local of run_server, "none" outside its use
    exitCode,      \* -1 while the process runs
    conn,          \* per connection thread: position, request, decoded path, response
    epoch,         \* the number of changes made to the files so far
    preloadRuns,   \* how many times preload_images_from_html was called
    disk0,         \* the filesystem at process launch
    preloaded,     \* the document bytes and the cache when preload returned
    net            \* which calls of get_local_ip raised, NoNet outside its use

vars == <<pc, disk, cwd, FILE_CONTENT, IMAGE_CACHE, paths, todo, cached, listener,
          local_ip, exitCode, conn, epoch, preloadRuns, disk0, preloaded, net>>

Threads == 1..NumThreads

NoResponse == [status |-> 0, ctype |-> "none", cache_control |-> "none", body |-> <<>>,
               source |-> "none"]

\* a thread that has not been started, or has ended with the process
Idle == [pc |-> "idle", raw |-> <<>>, path |-> <<>>, resp |-> NoResponse, epoch |-> 0]

EmptyCache == [k \in {} |-> <<>>]

NoNet == [sock |-> "none", host |-> "none"]

NotPreloaded == [doc |-> <<>>, cache |-> EmptyCache]

InitOn(disks) ==
    /\ pc = "load"
    /\ disk \in disks
    /\ disk0 = disk
    /\ cwd = <<"/">>
    /\ FILE_CONTENT = <<>>
    /\ IMAGE_CACHE = EmptyCache
    /\ paths = {}
    /\ todo = {}
    /\ cached = 0
    /\ listener = "none"
    /\ local_ip = "none"
    /\ net = NoNet
    /\ exitCode = -1
    /\ conn = [t \in Threads |-> Idle]
    /\ epoch = 0
    /\ preloadRuns = 0
    /\ preloaded = NotPreloaded

Init == InitOn(InitialDisks(ServedDocuments))

InitPreload == InitOn(InitialDisks(Documents))

(***************************************************************************)
(* Start-up: the module-level statements, in program order                 *)
(***************************************************************************)

\* try: FILE_CONTENT = f.read()  except: FILE_CONTENT = placeholder
LoadFile ==
    /\ pc = "load"
    /\ FILE_CONTENT' = LoadDocument(disk)
    /\ pc' = "preload"
    /\ UNCHANGED <<disk, cwd, IMAGE_CACHE, paths, todo, cached, listener, local_ip,
                   exitCode, conn, epoch, preloadRuns, disk0, preloaded, net>>

\* preload_images_from_html(FILE_CONTENT): decode, collect the candidate set
PreloadScan ==
    /\ pc = "preload"
    /\ paths' = Candidates(FILE_CONTENT)
    /\ todo' = Candidates(FILE_CONTENT)
    /\ cached' = 0
    /\ preloadRuns' = preloadRuns + 1
    /\ pc' = "loop"
    /\ UNCHANGED <<disk, cwd, FILE_CONTENT, IMAGE_CACHE, listener, local_ip, exitCode,
                   conn, epoch, disk0, preloaded, net>>

\* one iteration of  for p in paths:  in whatever order the set yields
PreloadStep ==
    /\ pc = "loop"
    /\ \E p \in todo :
        /\ IMAGE_CACHE' = PreloadOne(p, IMAGE_CACHE, disk)
        /\ cached' = IF Cacheable(p, disk) THEN cached + 1 ELSE cached
        /\ todo' = todo \ {p}
    /\ UNCHANGED <<pc, disk, cwd, FILE_CONTENT, paths, listener, local_ip, exitCode,
                   conn, epoch, preloadRuns, disk0, preloaded, net>>

\* the loop is over; preload_images_from_html returns
PreloadDone ==
    /\ pc = "loop"
    /\ todo = {}
    /\ preloaded' = [doc |-> FILE_CONTENT, cache |-> IMAGE_CACHE]
    /\ pc' = "main"
    /\ UNCHANGED <<disk, cwd, FILE_CONTENT, IMAGE_CACHE, paths, todo, cached, listener,
                   local_ip, exitCode, conn, epoch, preloadRuns, disk0, net>>

\* variant: the guard tests whether the preload read the document
MainMissing_unread ==
    /\ pc = "main"
    /\ ~CanOpen(disk, FILE_PATH)
    /\ exitCode' = 1
    /\ pc' = "exited"
    /\ UNCHANGED <<disk, cwd, FILE_CONTENT, IMAGE_CACHE, paths, todo, cached, listener,
                   local_ip, conn, epoch, preloadRuns, disk0, preloaded, net>>

\* if not os.path.exists(FILE_PATH): exit(1)
MainMissing ==
    /\ pc = "main"
    /\ FILE_PATH \notin DOMAIN disk
    /\ exitCode' = 1
    /\ pc' = "exited"
    /\ UNCHANGED <<disk, cwd, FILE_CONTENT, IMAGE_CACHE, paths, todo, cached, listener,
                   local_ip, conn, epoch, preloadRuns, disk0, preloaded, net>>

\* variant: the working directory is left where the process was launched
CreateServer_nochdir ==
    /\ pc = "main"
    /\ FILE_PATH \in DOMAIN disk
    /\ listener' = "bound"
    /\ pc' = "get_ip"
    /\ UNCHANGED <<cwd, disk, FILE_CONTENT, IMAGE_CACHE, paths, todo, cached, local_ip,
                   exitCode, conn, epoch, preloadRuns, disk0, preloaded, net>>

\* run_server(): chdir, create the listener
CreateServer ==
    /\ pc = "main"
    /\ FILE_PATH \in DOMAIN disk
    /\ cwd' = SCRIPT_DIR
    /\ listener' = "bound"
    /\ pc' = "get_ip"
    /\ UNCHANGED <<disk, FILE_CONTENT, IMAGE_CACHE, paths, todo, cached, local_ip,
                   exitCode, conn, epoch, preloadRuns, disk0, preloaded, net>>

\* local_ip = get_local_ip()
GetLocalIp ==
    /\ pc = "get_ip"
    /\ \E sock \in SockOutcomes, host \in HostOutcomes :
        /\ net' = [sock |-> sock, host |-> host]
        /\ IF get_local_ip(sock, host).kind = "return"
           THEN /\ local_ip' = get_local_ip(sock, host).value
                /\ pc' = "banner"
                /\ UNCHANGED exitCode
           ELSE /\ local_ip' = "none"
                /\ pc' = "exited"
                /\ exitCode' = 1
    /\ UNCHANGED <<disk, cwd, FILE_CONTENT, IMAGE_CACHE, paths, todo, cached, listener,
                   conn, epoch, preloadRuns, disk0, preloaded>>

\* the banner (the last use of local_ip), then server.serve_forever()
Banner ==
    /\ pc = "banner"
    /\ local_ip' = "none"
    /\ net' = NoNet
    /\ listener' = "serving"
    /\ pc' = "serve_forever"
    /\ UNCHANGED <<disk, cwd, FILE_CONTENT, IMAGE_CACHE, paths, todo, cached, exitCode,
                   conn, epoch, preloadRuns, disk0, preloaded>>

(***************************************************************************)
(* Serving: one thread per accepted connection                             *)
(***************************************************************************)

\* The listener accepts a connection; its thread enters do_GET:
\* path = unquote(self.path) and the two membership tests
Route(t) ==
    /\ pc = "serve_forever"
    /\ listener = "serving"
    /\ conn[t].pc = "idle"
    /\ \A u \in Threads : u < t => conn[u].pc # "idle"
    /\ \E raw \in Requests :
        conn' = [conn EXCEPT ![t] = [pc |-> Branch(Unquote(raw), IMAGE_CACHE),
                                     raw |-> raw,
                                     path |-> Unquote(raw),
                                     resp |-> NoResponse,
                                     epoch |-> 0]]
    /\ UNCHANGED <<pc, disk, cwd, FILE_CONTENT, IMAGE_CACHE, paths, todo, cached,
                   listener, local_ip, exitCode, epoch, preloadRuns, disk0, preloaded, net>>

\* the response is written and the thread ends
Respond(t, resp) ==
    conn' = [conn EXCEPT ![t] = [pc |-> "closed", raw |-> conn[t].raw,
                                 path |-> conn[t].path, resp |-> resp, epoch |-> epoch]]

\* variant: the document is read again for every request
SendDocument_reread(t) ==
    /\ pc = "serve_forever"
    /\ conn[t].pc = "document"
    /\ Respond(t, DocumentResponse(LoadDocument(disk)))
    /\ UNCHANGED <<pc, disk, cwd, FILE_CONTENT, IMAGE_CACHE, paths, todo, cached,
                   listener, local_ip, exitCode, epoch, preloadRuns, disk0, preloaded, net>>

\* self.wfile.write(FILE_CONTENT)
SendDocument(t) ==
    /\ pc = "serve_forever"
    /\ conn[t].pc = "document"
    /\ Respond(t, DocumentResponse(FILE_CONTENT))
    /\ UNCHANGED <<pc, disk, cwd, FILE_CONTENT, IMAGE_CACHE, paths, todo, cached,
                   listener, local_ip, exitCode, epoch, preloadRuns, disk0, preloaded, net>>

\* variant: a cached image is read again when its file can still be opened
SendImage_reread(t) ==
    /\ pc = "serve_forever"
    /\ conn[t].pc = "image"
    /\ Respond(t, ImageResponse(
            IF CanOpen(disk, FsPath(conn[t].path))
            THEN <<disk[FsPath(conn[t].path)].data, IMAGE_CACHE[conn[t].path][2]>>
            ELSE IMAGE_CACHE[conn[t].path]))
    /\ UNCHANGED <<pc, disk, cwd, FILE_CONTENT, IMAGE_CACHE, paths, todo, cached,
                   listener, local_ip, exitCode, epoch, preloadRuns, disk0, preloaded, net>>

\* data, mime = IMAGE_CACHE[path]; self.wfile.write(data)
SendImage(t) ==
    /\ pc = "serve_forever"
    /\ conn[t].pc = "image"
    /\ Respond(t, ImageResponse(IMAGE_CACHE[conn[t].path]))
    /\ UNCHANGED <<pc, disk, cwd, FILE_CONTENT, IMAGE_CACHE, paths, todo, cached,
                   listener, local_ip, exitCode, epoch, preloadRuns, disk0, preloaded, net>>

\* variant: a file the static handler found is added to the image cache
SendFallback_caching(t) ==
    /\ pc = "serve_forever"
    /\ conn[t].pc = "fallback"
    /\ Respond(t, StaticHandler(conn[t].raw, cwd, disk))
    /\ IMAGE_CACHE' =
          IF StaticHandler(conn[t].raw, cwd, disk).status = 200
          THEN Store(IMAGE_CACHE, conn[t].path,
                     <<StaticHandler(conn[t].raw, cwd, disk).body,
                       StaticHandler(conn[t].raw, cwd, disk).ctype>>)
          ELSE IMAGE_CACHE
    /\ UNCHANGED <<pc, disk, cwd, FILE_CONTENT, paths, todo, cached,
                   listener, local_ip, exitCode, epoch, preloadRuns, disk0, preloaded, net>>

\* return super().do_GET(), which works on self.path
SendFallback(t) ==
    /\ pc = "serve_forever"
    /\ conn[t].pc = "fallback"
    /\ Respond(t, StaticHandler(conn[t].raw, cwd, disk))
    /\ UNCHANGED <<pc, disk, cwd, FILE_CONTENT, IMAGE_CACHE, paths, todo, cached,
                   listener, local_ip, exitCode, epoch, preloadRuns, disk0, preloaded, net>>

\* except KeyboardInterrupt: serve_forever ends, run_server returns, the
\* process ends; the connection threads are daemon threads and end with it
Interrupt ==
    /\ pc = "serve_forever"
    /\ listener' = "stopped"
    /\ exitCode' = 0
    /\ conn' = [t \in Threads |-> Idle]
    /\ pc' = "exited"
    /\ UNCHANGED <<disk, cwd, FILE_CONTENT, IMAGE_CACHE, paths, todo, cached, local_ip,
                   epoch, preloadRuns, disk0, preloaded, net>>

(***************************************************************************)
(* The environment changes files while the server runs.  The files are     *)
(* taken to be stable while the process starts.                            *)
(***************************************************************************)

DiskWrite ==
    /\ pc = "serve_forever"
    /\ epoch < MaxDiskChanges
    /\ \E c \in Changes : disk' = WithFile(disk, c[1], File(c[2], TRUE))
    /\ epoch' = epoch + 1
    /\ UNCHANGED <<pc, cwd, FILE_CONTENT, IMAGE_CACHE, paths, todo, cached, listener,
                   local_ip, exitCode, conn, preloadRuns, disk0, preloaded, net>>

DiskDelete ==
    /\ pc = "serve_forever"
    /\ epoch < MaxDiskChanges
    /\ \E f \in Removable : f \in DOMAIN disk /\ disk' = Without(disk, f)
    /\ epoch' = epoch + 1
    /\ UNCHANGED <<pc, cwd, FILE_CONTENT, IMAGE_CACHE, paths, todo, cached, listener,
                   local_ip, exitCode, conn, preloadRuns, disk0, preloaded, net>>

Startup ==
    \/ LoadFile
    \/ PreloadScan
    \/ PreloadStep
    \/ PreloadDone

Next ==
    \/ Startup
    \/ MainMissing
    \/ CreateServer
    \/ GetLocalIp
    \/ Banner
    \/ \E t \in Threads : Route(t)
    \/ \E t \in Threads : SendDocument(t)
    \/ \E t \in Threads : SendImage(t)
    \/ \E t \in Threads : SendFallback(t)
    \/ Interrupt
    \/ DiskWrite
    \/ DiskDelete

\* the whole life of the process, started on ServedDocuments
Spec == Init /\ [][Next]_vars

\* preload alone, on every document of at most MaxRefs references
SpecPreload == InitPreload /\ [][Startup]_vars

(***************************************************************************)
(* Properties                                                              *)
(***************************************************************************)

Closed(t) == pc = "serve_forever" /\ conn[t].pc = "closed"

\* the bytes of the document file at launch, or the placeholder
DocumentAtLaunch ==
    IF FILE_PATH \in DOMAIN disk0 /\ disk0[FILE_PATH].kind = "file" /\ disk0[FILE_PATH].readable
    THEN disk0[FILE_PATH].data
    ELSE PLACEHOLDER

\* the two request paths of the document
DocumentPaths == {<<"/">>, <<"/">> \o FILE_NAME}

C2_ImageServedFromPreload ==
    \A t \in Threads :
        (Closed(t) /\ Unquote(conn[t].raw) \in DOMAIN IMAGE_CACHE) =>
            LET key == Unquote(conn[t].raw)
            IN  /\ conn[t].resp.status = 200
                /\ conn[t].resp.cache_control = "public, max-age=86400"
                /\ conn[t].resp.ctype = preloaded.cache[key][2]
                /\ conn[t].resp.body = preloaded.cache[key][1]
                /\ \E p \in paths :
                    /\ RequestPath(LocalPath(p)) = key
                    /\ conn[t].resp.body = disk0[FsPath(LocalPath(p))].data
                    /\ conn[t].resp.ctype = GuessType(FsPath(LocalPath(p)))

\* a cached image was served after its file was deleted
C2_Witness ==
    \E t \in Threads :
        /\ Closed(t)
        /\ conn[t].path \in DOMAIN IMAGE_CACHE
        /\ conn[t].resp.body = <<"png_a">>
        /\ conn[t].epoch = 1
        /\ FsPath(conn[t].path) \notin DOMAIN disk

\* C3: a request whose percent-decoded path is neither a document path nor a
\* key of the image cache is answered by the static handler: the response
\* written is the static handler's response for the request target, on the
\* files as they are at that moment, under the server root.
C3_FallbackForUnknownPaths ==
    [][\A t \in Threads :
          (/\ conn[t].pc \in {"document", "image", "fallback"}
           /\ conn'[t].pc = "closed"
           /\ Unquote(conn[t].raw) \notin DocumentPaths
           /\ Unquote(conn[t].raw) \notin DOMAIN IMAGE_CACHE)
          => /\ conn'[t].resp.source = "fallback"
             /\ conn'[t].resp = StaticHandler(conn[t].raw, SCRIPT_DIR, disk)]_vars

\* the fallback answered 200 with the bytes of a file and 404 for a missing one
C3_Witness ==
    \E t, u \in Threads :
        /\ Closed(t) /\ Closed(u)
        /\ conn[t].resp.source = "fallback" /\ conn[t].resp.status = 200
        /\ conn[t].resp.body = <<"png_a">>
        /\ conn[u].resp.source = "fallback" /\ conn[u].resp.status = 404

\* the candidates of the document that preload caches: extension in the
\* allow-list (compared in lower case), filesystem path an existing, readable
\* regular file
Cached(p) ==
    /\ LocalPath(p) # <<>>
    /\ Lower(SplitExt(LocalPath(p))) \in ImageExts
    /\ FsPath(LocalPath(p)) \in DOMAIN disk0
    /\ disk0[FsPath(LocalPath(p))].kind = "file"
    /\ disk0[FsPath(LocalPath(p))].readable

\* the document <img src="Images/a.png"><link href="Images/b.svg">
ExampleDocument == RefPool[1] \o RefPool[2]

\* C4: when preload_images_from_html has returned, the keys of the image cache
\* are exactly the request-path forms of the candidates with an allow-listed
\* extension and an existing, readable regular file, each with the contents of
\* its file; for the document referencing Images/a.png and Images/b.svg the
\* cache is exactly /Images/a.png and /Images/b.svg with their contents.
C4_CacheIsExactlyTheReadableImages ==
    pc = "main" =>
        /\ DOMAIN IMAGE_CACHE = {RequestPath(LocalPath(p)) : p \in {q \in paths : Cached(q)}}
        /\ \A p \in paths :
            Cached(p) => IMAGE_CACHE[RequestPath(LocalPath(p))][1] = disk0[FsPath(LocalPath(p))].data
        /\ FILE_CONTENT = ExampleDocument =>
            IMAGE_CACHE = [k \in {<<"/">> \o Images \o a_png, <<"/">> \o Images \o b_svg} |->
                             IF k = <<"/">> \o Images \o a_png
                             THEN <<<<"png_a">>, "image/png">>
                             ELSE <<<<"svg_b">>, "image/svg+xml">>]

\* a document naming a missing image after an existing one: preload returned
\* with the existing one cached alone
C4_Witness ==
    /\ pc = "main"
    /\ paths = {Images \o a_png, Images \o missing_gif}
    /\ DOMAIN IMAGE_CACHE = {<<"/">> \o Images \o a_png}
    /\ cached = 1

\* C5: preload runs once and is over before the listener accepts a connection;
\* while the listener serves, and after, the document bytes and the image cache
\* are what they were when preload returned.
C5_PreloadOnceThenReadOnly ==
    (listener # "none" \/ \E t \in Threads : conn[t].pc # "idle") =>
        /\ preloadRuns = 1
        /\ pc \notin {"load", "preload", "loop"}
        /\ todo = {}
        /\ FILE_CONTENT = preloaded.doc
        /\ IMAGE_CACHE = preloaded.cache

\* two threads are in flight at different positions after a file changed
C5_Witness ==
    /\ pc = "serve_forever"
    /\ epoch = 1
    /\ conn[1].pc = "closed"
    /\ conn[1].resp.source = "fallback"
    /\ conn[2].pc = "image"

\* the original statement of C6: two responses to the same request target are
\* equal, for every target
C6_SameRequestSameResponse ==
    \A t, u \in Threads :
        (Closed(t) /\ Closed(u) /\ conn[t].raw = conn[u].raw) => conn[t].resp = conn[u].resp

\* C6: two responses to the same request target are equal when the decoded
\* path is a document path or a key of the image cache, whatever happened in
\* between, and for any other target when no file changed between the two;
\* serving leaves the document bytes and the image cache as preload left them.
C6_SameRequestSameResponseFromMemory ==
    /\ \A t, u \in Threads :
        (/\ Closed(t) /\ Closed(u) /\ conn[t].raw = conn[u].raw
         /\ \/ Unquote(conn[t].raw) \in DocumentPaths
            \/ Unquote(conn[t].raw) \in DOMAIN IMAGE_CACHE
            \/ conn[t].epoch = conn[u].epoch)
        => conn[t].resp = conn[u].resp
    /\ (\E t \in Threads : conn[t].pc # "idle") =>
        (FILE_CONTENT = preloaded.doc /\ IMAGE_CACHE = preloaded.cache)

\* the same target was answered twice from memory, before and after a change
C6_Witness ==
    \E t, u \in Threads :
        /\ Closed(t) /\ Closed(u) /\ t # u
        /\ conn[t].raw = conn[u].raw
        /\ conn[t].resp.source = "image_cache"
        /\ conn[t].epoch = 0 /\ conn[u].epoch = 1

C8_LocalIpFallsThrough ==
    net # NoNet =>
        /\ pc = "banner"
        /\ local_ip = IF net.sock = "ok" THEN "192.168.1.5"
                      ELSE IF net.host = "ok" THEN "127.0.1.1"
                      ELSE "127.0.0.1"

\* s.close() raised after the address was read: the host address is returned
C8_Witness ==
    /\ pc = "banner"
    /\ net = [sock |-> "close", host |-> "ok"]
    /\ local_ip = HOST_IP

UnderRoot(f) == StartsWith(f, SCRIPT_DIR \o <<"/">>)

\* C9: every entry of the image cache holds the bytes of a regular file under
\* the server root, and no response from the cache carries the bytes of a file
\* outside the root.
C9_CacheHoldsOnlyFilesUnderRoot ==
    /\ \A k \in DOMAIN IMAGE_CACHE :
        \E f \in DOMAIN disk0 :
            UnderRoot(f) /\ disk0[f].kind = "file" /\ disk0[f].data = IMAGE_CACHE[k][1]
    /\ \A t \in Threads :
        (Closed(t) /\ conn[t].resp.source = "image_cache") =>
            \E f \in DOMAIN disk0 :
                UnderRoot(f) /\ disk0[f].kind = "file" /\ disk0[f].data = conn[t].resp.body

\* C10: two candidates with the same cache key have the same filesystem path,
\* so that, whatever order the loop visits the candidates in, the entry of a
\* key is the contents and MIME type of the file of every candidate of that key.
C10_CacheIndependentOfOrder ==
    /\ \A p, q \in paths :
        (IsImagePath(LocalPath(p)) /\ IsImagePath(LocalPath(q))
         /\ RequestPath(LocalPath(p)) = RequestPath(LocalPath(q)))
        => FsPath(LocalPath(p)) = FsPath(LocalPath(q))
    /\ pc = "main" =>
        \A p \in paths :
            Cacheable(p, disk0) =>
                IMAGE_CACHE[RequestPath(LocalPath(p))] =
                    <<disk0[FsPath(LocalPath(p))].data, GuessType(FsPath(LocalPath(p)))>>

\* two different candidates of one key were both stored
C10_Witness ==
    /\ pc = "main"
    /\ Cardinality(paths) = 2
    /\ cached = 2
    /\ Cardinality(DOMAIN IMAGE_CACHE) = 1

=============================================================================
